---------------------------- MODULE Spec2Model ----------------------------
(***************************************************************************)
(* A model of the avatar generator's client: the image URL helpers         *)
(* (imageUtils.ts), the AvatarImage display component, and the Home page   *)
(* with its prompt form and image-generation mutation.                     *)
(*                                                                         *)
(* A React component is modelled at the granularity of a commit: an action *)
(* is one event handler (or timer / promise callback) together with the    *)
(* re-renders and effect runs it causes, up to the point where no state    *)
(* changes any more.                                                       *)
(***************************************************************************)
EXTENDS Integers, Sequences, FiniteSets, TLC

(***************************************************************************)
(* Bounds of the model.                                                    *)
(***************************************************************************)
\* Preload probes (loadImageWithRetry promises) in flight at the same time.
MaxProbes == 3

(***************************************************************************)
(* The variables: those of AvatarImage and those of the Home page, each    *)
(* described with the component below.                                     *)
(***************************************************************************)
VARIABLES imageUrl, isLoading, isImageLoaded, hasError, errorType, retryCount,
          loadingTimeout, normalizedUrl, useFallbackImg, timeoutRef,
          errorReportedRef, probes, mounted, loadPending,
          onErrorCalls, suppressed, lastEvent, scenario, sequenceReported

imageVars == <<imageUrl, isLoading, isImageLoaded, hasError, errorType,
               retryCount, loadingTimeout, normalizedUrl, useFallbackImg,
               timeoutRef, errorReportedRef, probes, mounted,
               loadPending, onErrorCalls, suppressed, lastEvent, scenario,
               sequenceReported>>

VARIABLES internalPrompt, gameStyle, homeImageUrl, imageError,
          showResultSection, imageMutationStatus, hasIsFetching,
          isGenerating, errorMessage, descriptionRequests, imageRequests,
          lastSettled, lastDescription, latestResult, homeEvent

homeVars == <<internalPrompt, gameStyle, homeImageUrl, imageError,
              showResultSection, imageMutationStatus, hasIsFetching,
              isGenerating, errorMessage, descriptionRequests, imageRequests,
              lastSettled, lastDescription, latestResult, homeEvent>>

VARIABLES srvProc, srvEnv, srvInput, srvPc, srvTimer, srvResponse, srvCalls,
          srvOutcome, srvCause

serverVars == <<srvProc, srvEnv, srvInput, srvPc, srvTimer, srvResponse,
                srvCalls, srvOutcome, srvCause>>

VARIABLES loadArgs, retries, delay, attempts, img, resolveCalls, rejectCalls,
          backoff, wait

loaderVars == <<loadArgs, retries, delay, attempts, img, resolveCalls,
                rejectCalls, backoff, wait>>

VARIABLES urlArg, applied, isValid, normalizedOnce, renormalized, isTemporary

urlVars == <<urlArg, applied, isValid, normalizedOnce, renormalized,
             isTemporary>>

VARIABLES resultImageUrl, resultIsLoading, validatedImageUrl,
          imageValidationError, isTemporaryUrl, imageLoadError, retryCounter,
          retryTimers, resultEvent

displayVars == <<resultImageUrl, resultIsLoading, validatedImageUrl,
                 imageValidationError, isTemporaryUrl, imageLoadError,
                 retryCounter, retryTimers, resultEvent>>

vars == <<imageVars, homeVars, serverVars, loaderVars, urlVars, displayVars>>

(***************************************************************************)
(* Strings.  A string is a record: the empty string, a string of blanks, a *)
(* string that does not parse as a URL, or the text of a URL with its      *)
(* scheme, its host (a sequence of tokens whose concatenation is the host  *)
(* name) and whether the text is already in the serialised form that       *)
(* URL.toString() produces ("https://a.example" is not, "https://a.example/"*)
(* is).  null is a value of its own.                                       *)
(***************************************************************************)
NoHost == << >>

Null == [kind |-> "null", scheme |-> "", host |-> NoHost, canon |-> FALSE]

EmptyStr == [kind |-> "empty", scheme |-> "", host |-> NoHost, canon |-> FALSE]

BlankStr == [kind |-> "blank", scheme |-> "", host |-> NoHost, canon |-> FALSE]

NotAUrl == [kind |-> "garbage", scheme |-> "", host |-> NoHost, canon |-> FALSE]

UrlText(scheme, host, canon) ==
    [kind |-> "url", scheme |-> scheme, host |-> host, canon |-> canon]

HostExample == <<"a", ".", "example">>

HostReplicate == <<"x", ".", "replicate", ".", "delivery">>

ReplicateDelivery == <<"replicate", ".", "delivery">>

\* JavaScript truthiness of a string | null value.
Truthy(u) == u.kind \notin {"null", "empty"}

\* new URL(u) throws unless u is the text of a URL.
Parses(u) == u.kind = "url"

\* String.prototype.includes on host names.
Includes(h, needle) ==
    \E i \in 1..(Len(h) - Len(needle) + 1) :
        SubSeq(h, i, i + Len(needle) - 1) = needle

\* String.prototype.trim() === ''
TrimsToEmpty(u) == u.kind \in {"empty", "blank"}

\* The schemes between which the URL protocol setter may switch.
SpecialSchemes == {"https", "http", "ftp", "ws", "wss"}

\* validateImageUrl, were it to accept the known image domain only.
validateImageUrlKnownHostOnly(u) ==
    IF ~Truthy(u) THEN FALSE
    ELSE IF ~Parses(u) THEN FALSE
    ELSE IF u.scheme # "https" THEN FALSE
    ELSE Includes(u.host, ReplicateDelivery)

validateImageUrl(u) ==
    IF ~Truthy(u) THEN FALSE
    ELSE IF ~Parses(u) THEN FALSE
    ELSE IF u.scheme # "https" THEN FALSE
    ELSE IF ~Includes(u.host, ReplicateDelivery) THEN TRUE
    ELSE TRUE

\* normalizeImageUrl, were it to repair a string that does not parse by
\* putting a scheme in front of it.
normalizeImageUrlPrefixes(u) ==
    IF ~Truthy(u) THEN Null
    ELSE IF ~Parses(u) THEN UrlText("https", HostExample, FALSE)
    ELSE LET scheme == IF u.scheme # "https" /\ u.scheme \in SpecialSchemes
                       THEN "https" ELSE u.scheme
         IN  UrlText(scheme, u.host, TRUE)

\* normalizeImageUrl, were it to give up with null when the parse fails.
normalizeImageUrlNullOnFailure(u) ==
    IF ~Truthy(u) THEN Null
    ELSE IF ~Parses(u) THEN Null
    ELSE LET scheme == IF u.scheme # "https" /\ u.scheme \in SpecialSchemes
                       THEN "https" ELSE u.scheme
         IN  UrlText(scheme, u.host, TRUE)

normalizeImageUrl(u) ==
    IF ~Truthy(u) THEN Null
    ELSE IF ~Parses(u) THEN u
    ELSE LET scheme == IF u.scheme # "https" /\ u.scheme \in SpecialSchemes
                       THEN "https" ELSE u.scheme
         IN  UrlText(scheme, u.host, TRUE)

isLikelyTemporaryUrl(u) ==
    IF ~Truthy(u) THEN FALSE
    ELSE IF ~Parses(u) THEN FALSE
    ELSE Includes(u.host, ReplicateDelivery)

\* getImageErrorDetails, for the src of the element that raised the event.
getImageErrorDetails(src) ==
    IF ~Truthy(src) THEN "missing_src"
    ELSE IF ~Parses(src) THEN "invalid_url_format"
    ELSE IF Includes(src.host, ReplicateDelivery) THEN "replicate_delivery_error"
    ELSE IF src.scheme \notin {"https", "http"} THEN "invalid_protocol"
    ELSE "unknown_error"

(***************************************************************************)
(* AvatarImage.                                                            *)
(*                                                                         *)
(* Props: imageUrl, isLoading (onError is provided and stable, as in       *)
(* AvatarResultDisplay, where it is a useCallback with no dependencies).   *)
(* State: isImageLoaded, hasError, errorType (errorMessage is set together *)
(* with errorType and determined by it), retryCount, loadingTimeout,       *)
(* normalizedUrl, useFallbackImg.  Refs: timeoutRef, errorReportedRef.     *)
(*                                                                         *)
(* Environment: the preload probes in flight (probes: how many for each    *)
(* URL; a probe is stale when its URL is not normalizedUrl), and the       *)
(* image element the last render mounted, with whether its load is still   *)
(* to answer (an element answers a load with one load event or one error   *)
(* event; a load starts when the element is mounted or its src changes).   *)
(*                                                                         *)
(* History: onErrorCalls counts the calls of the parent's onError since    *)
(* the last change of imageUrl, suppressed whether reportError has dropped  *)
(* a report since then; lastEvent names the last action; scenario follows  *)
(* the run "fresh valid URL, then only render-time failures";              *)
(* sequenceReported whether onError has been called since the load         *)
(* sequence started (a change of imageUrl or of isLoading starts one).     *)
(***************************************************************************)
maxRetries == 2

TemporaryTimeout == 20000

DefaultTimeout == 15000

\* timeoutRef.current: no pending timer, or a pending timer with the values
\* its callback closed over.
NoTimer == [pending |-> FALSE, isImageLoaded |-> FALSE, hasError |-> FALSE,
            duration |-> 0]

NoElement == [kind |-> "none", src |-> Null]

\* The component and its environment as one record.
Cur ==
    [imageUrl |-> imageUrl, isLoading |-> isLoading,
     isImageLoaded |-> isImageLoaded, hasError |-> hasError,
     errorType |-> errorType, retryCount |-> retryCount,
     loadingTimeout |-> loadingTimeout, normalizedUrl |-> normalizedUrl,
     useFallbackImg |-> useFallbackImg, timeoutRef |-> timeoutRef,
     errorReportedRef |-> errorReportedRef, probes |-> probes,
     mounted |-> mounted,
     loadPending |-> loadPending, onErrorCalls |-> onErrorCalls,
     suppressed |-> suppressed]

\* The strings the parent passes as imageUrl.
ImageUrls ==
    { EmptyStr, BlankStr, NotAUrl,
      UrlText("https", HostExample, FALSE),
      UrlText("https", HostExample, TRUE),
      UrlText("http", HostExample, TRUE),
      UrlText("https", HostReplicate, TRUE) }

\* The URLs a probe can be started for.
ProbeUrls == { normalizeImageUrl(u) : u \in { v \in ImageUrls : validateImageUrl(v) } }

NoProbes == [u \in ProbeUrls |-> 0]

RECURSIVE SumOver(_, _)
SumOver(f, S) ==
    IF S = {} THEN 0
    ELSE LET x == CHOOSE y \in S : TRUE
         IN  f[x] + SumOver(f, S \ {x})

\* The probes in flight.
InFlight(p) == SumOver(p, DOMAIN p)

\* The state of a freshly mounted AvatarImage with no URL.
Mounted0 ==
    [imageUrl |-> EmptyStr, isLoading |-> FALSE,
     isImageLoaded |-> FALSE, hasError |-> FALSE,
     errorType |-> "null", retryCount |-> 0,
     loadingTimeout |-> FALSE, normalizedUrl |-> Null,
     useFallbackImg |-> FALSE, timeoutRef |-> NoTimer,
     errorReportedRef |-> FALSE, probes |-> NoProbes,
     mounted |-> NoElement,
     loadPending |-> FALSE, onErrorCalls |-> 0,
     suppressed |-> FALSE]

\* reportError on the unguarded path: every call reaches the parent.
reportErrorEveryTime(s, type) ==
    [s EXCEPT !.onErrorCalls = @ + 1, !.errorReportedRef = TRUE]

\* reportError: onError is called once per image URL.
reportError(s, type) ==
    IF ~s.errorReportedRef
    THEN [s EXCEPT !.onErrorCalls = @ + 1, !.errorReportedRef = TRUE]
    ELSE [s EXCEPT !.suppressed = TRUE]

\* The effect that resets the reported flag, dependencies [imageUrl].  A
\* change of imageUrl also starts a new count of the history.
ResetReportedEffect(prev, r, acc) ==
    IF r.imageUrl # prev.imageUrl
    THEN [acc EXCEPT !.errorReportedRef = FALSE, !.onErrorCalls = 0,
                     !.suppressed = FALSE]
    ELSE acc

\* The validation effect, were it to set no timer.
TimerForNone(r, normalized) ==
    [pending |-> FALSE, isImageLoaded |-> FALSE, hasError |-> FALSE,
     duration |-> 0]

\* What the callback of the load timeout closes over.
\* The timer, were its duration the same for every URL.
TimerForDefaultOnly(r, normalized) ==
    [pending |-> TRUE, isImageLoaded |-> r.isImageLoaded,
     hasError |-> r.hasError, duration |-> DefaultTimeout]

TimerFor(r, normalized) ==
    [pending |-> TRUE, isImageLoaded |-> r.isImageLoaded,
     hasError |-> r.hasError,
     duration |-> IF isLikelyTemporaryUrl(normalized)
                  THEN TemporaryTimeout ELSE DefaultTimeout]

\* The validation effect, dependencies [imageUrl, isLoading, normalizedUrl,
\* isImageLoaded, hasError, reportError].  r is the rendered state the
\* effect closes over; acc carries the refs and the queued state updates.
\* The cleanup of the previous run clears the timer first.
ValidateEffect(prev, r, acc) ==
    IF /\ r.imageUrl = prev.imageUrl
       /\ r.isLoading = prev.isLoading
       /\ r.normalizedUrl = prev.normalizedUrl
       /\ r.isImageLoaded = prev.isImageLoaded
       /\ r.hasError = prev.hasError
    THEN acc
    ELSE LET c == [acc EXCEPT !.timeoutRef = NoTimer]
             normalized == normalizeImageUrl(r.imageUrl)
             reset == IF normalized # r.normalizedUrl
                      THEN [c EXCEPT !.normalizedUrl = normalized,
                                     !.isImageLoaded = FALSE,
                                     !.hasError = FALSE,
                                     !.errorType = "null",
                                     !.retryCount = 0,
                                     !.loadingTimeout = FALSE,
                                     !.useFallbackImg = FALSE]
                      ELSE c
         IN  IF ~Truthy(r.imageUrl) \/ TrimsToEmpty(r.imageUrl) \/ r.isLoading
             THEN [c EXCEPT !.normalizedUrl = Null]
             ELSE IF ~validateImageUrl(r.imageUrl)
             THEN reportError([c EXCEPT !.hasError = TRUE,
                                        !.errorType = "invalid_url"],
                              "invalid_url")
             ELSE IF Truthy(normalized)
             THEN [reset EXCEPT !.timeoutRef = TimerFor(r, normalized)]
             ELSE reset

\* The preload effect, dependencies [normalizedUrl, isImageLoaded, hasError,
\* retryCount]: starts a probe, loadImageWithRetry(normalizedUrl, 1, 2000).
PreloadEffect(prev, r, acc) ==
    IF /\ r.normalizedUrl = prev.normalizedUrl
       /\ r.isImageLoaded = prev.isImageLoaded
       /\ r.hasError = prev.hasError
       /\ r.retryCount = prev.retryCount
    THEN acc
    ELSE IF \/ ~Truthy(r.normalizedUrl)
            \/ r.isImageLoaded
            \/ r.hasError
            \/ r.retryCount >= maxRetries
    THEN acc
    ELSE [acc EXCEPT !.probes[r.normalizedUrl] = @ + 1]

\* One commit: the effects whose dependencies changed since the previous
\* commit run in the order of their declaration, over the rendered state r.
Commit(prev, r) ==
    PreloadEffect(prev, r,
        ValidateEffect(prev, r,
            ResetReportedEffect(prev, r, r)))

\* The state fields of the component: a change of one causes a re-render.
StateOf(s) ==
    <<s.isImageLoaded, s.hasError, s.errorType, s.retryCount,
      s.loadingTimeout, s.normalizedUrl, s.useFallbackImg>>

\* Re-render and commit until the effects queue no further state change.
RECURSIVE Settle(_, _)
Settle(prev, r) ==
    LET n == Commit(prev, r)
    IN  IF StateOf(n) = StateOf(r) THEN n ELSE Settle(r, n)

\* The image element the render of s mounts.
Render(s) ==
    IF s.isLoading THEN NoElement
    ELSE IF s.loadingTimeout /\ ~s.isImageLoaded /\ ~s.hasError THEN NoElement
    ELSE IF s.hasError THEN NoElement
    ELSE IF s.useFallbackImg /\ Truthy(s.normalizedUrl)
    THEN [kind |-> "img", src |-> s.normalizedUrl]
    ELSE IF Truthy(s.normalizedUrl)
    THEN [kind |-> "Image", src |-> s.normalizedUrl]
    ELSE NoElement

\* The DOM after the settled render: an element that was not there before,
\* or whose src changed, starts loading.
Mount(s) ==
    LET e == Render(s)
    IN  IF e = s.mounted THEN s
        ELSE [s EXCEPT !.mounted = e, !.loadPending = (e.kind # "none")]

\* The component after a handler has turned the current state into r.
After(r) == Mount(Settle(Cur, r))

\* A timeout callback that acts whatever the flags were.
TimeoutCallbackUnchecked(s, timer) ==
    reportError([s EXCEPT !.loadingTimeout = TRUE,
                          !.useFallbackImg = TRUE],
                "timeout")

\* The callback of the load timeout, over the values it closed over.
TimeoutCallback(s, timer) ==
    IF ~timer.isImageLoaded /\ ~timer.hasError
    THEN reportError([s EXCEPT !.loadingTimeout = TRUE,
                               !.useFallbackImg = TRUE],
                     "timeout")
    ELSE s

handleImageLoad(s) ==
    [s EXCEPT !.isImageLoaded = TRUE,
              !.hasError = FALSE,
              !.errorType = "null",
              !.loadingTimeout = FALSE,
              !.timeoutRef = NoTimer]

\* handleImageError giving up one failure early.
handleImageErrorOneEarly(s) ==
    IF s.retryCount < maxRetries - 1
    THEN [s EXCEPT !.retryCount = @ + 1,
                   !.useFallbackImg = IF s.retryCount = 0 THEN TRUE ELSE @]
    ELSE reportError([s EXCEPT !.hasError = TRUE,
                               !.errorType = getImageErrorDetails(s.mounted.src),
                               !.timeoutRef = NoTimer],
                     getImageErrorDetails(s.mounted.src))

\* handleImageError reporting every failure to the parent.
handleImageErrorReportsEach(s) ==
    IF s.retryCount < maxRetries
    THEN reportError([s EXCEPT !.retryCount = @ + 1,
                               !.useFallbackImg =
                                   IF s.retryCount = 0 THEN TRUE ELSE @],
                     getImageErrorDetails(s.mounted.src))
    ELSE reportError([s EXCEPT !.hasError = TRUE,
                               !.errorType = getImageErrorDetails(s.mounted.src),
                               !.timeoutRef = NoTimer],
                     getImageErrorDetails(s.mounted.src))

handleImageError(s) ==
    IF s.retryCount < maxRetries
    THEN [s EXCEPT !.retryCount = @ + 1,
                   !.useFallbackImg = IF s.retryCount = 0 THEN TRUE ELSE @]
    ELSE reportError([s EXCEPT !.hasError = TRUE,
                               !.errorType = getImageErrorDetails(s.mounted.src),
                               !.timeoutRef = NoTimer],
                     getImageErrorDetails(s.mounted.src))

\* The catch block of preloadImage: the probe has rejected.
\* The catch block of preloadImage, were it to give up with an error.
PreloadFailedSetsError(s) ==
    [s EXCEPT !.retryCount = @ + 1, !.hasError = TRUE]

PreloadFailed(s) == [s EXCEPT !.retryCount = @ + 1]

\* The state at the start of a load sequence of a valid URL.
Fresh(s) ==
    /\ validateImageUrl(s.imageUrl)
    /\ ~s.isLoading
    /\ Truthy(s.normalizedUrl)
    /\ s.retryCount = 0
    /\ ~s.isImageLoaded /\ ~s.hasError /\ ~s.loadingTimeout
    /\ ~s.useFallbackImg
    /\ s.onErrorCalls = 0

\* The monitor of "a fresh valid URL, then only render-time failures".
ScenarioAfter(event, n) ==
    CASE event = "SetUrl" -> IF Fresh(n) THEN "fresh" ELSE "off"
      [] event = "ImageError" ->
            IF scenario = "fresh" THEN "fail1"
            ELSE IF scenario = "fail1" THEN "fail2"
            ELSE "off"
      [] event \in {"PreloadSucceeds", "StalePreloadSucceeds"} -> scenario
      [] OTHER -> "off"

\* Whether onError has been called in the load sequence, after the named
\* event has led to n.
ReportedAfter(event, n) ==
    CASE event = "SetUrl" -> n.onErrorCalls > 0
      [] event = "SetLoading" -> n.onErrorCalls > onErrorCalls
      [] OTHER -> sequenceReported \/ n.onErrorCalls > onErrorCalls

\* The next state is n, reached by the named event.
Becomes(event, n) ==
    /\ InFlight(n.probes) <= MaxProbes
    /\ imageUrl' = n.imageUrl
    /\ isLoading' = n.isLoading
    /\ isImageLoaded' = n.isImageLoaded
    /\ hasError' = n.hasError
    /\ errorType' = n.errorType
    /\ retryCount' = n.retryCount
    /\ loadingTimeout' = n.loadingTimeout
    /\ normalizedUrl' = n.normalizedUrl
    /\ useFallbackImg' = n.useFallbackImg
    /\ timeoutRef' = n.timeoutRef
    /\ errorReportedRef' = n.errorReportedRef
    /\ probes' = n.probes
    /\ mounted' = n.mounted
    /\ loadPending' = n.loadPending
    /\ onErrorCalls' = n.onErrorCalls
    /\ suppressed' = n.suppressed
    /\ lastEvent' = event
    /\ scenario' = ScenarioAfter(event, n)
    /\ sequenceReported' = ReportedAfter(event, n)
    /\ UNCHANGED <<homeVars, serverVars, loaderVars, urlVars, displayVars>>

\* The parent passes another imageUrl.
SetUrl ==
    \E u \in ImageUrls :
        /\ u # imageUrl
        /\ Becomes("SetUrl", After([Cur EXCEPT !.imageUrl = u]))

\* The parent toggles isLoading.
SetLoading ==
    /\ isLoading \in BOOLEAN
    /\ Becomes("SetLoading", After([Cur EXCEPT !.isLoading = ~isLoading]))

\* The mounted element fires its load event.
ImageLoad ==
    /\ loadPending
    /\ Becomes("ImageLoad",
               After(handleImageLoad([Cur EXCEPT !.loadPending = FALSE])))

\* The mounted element fires its error event.
ImageError ==
    /\ loadPending
    /\ Becomes("ImageError",
               After(handleImageError([Cur EXCEPT !.loadPending = FALSE])))

\* The pending load timeout fires.
TimeoutFires ==
    /\ timeoutRef.pending
    /\ Becomes("TimeoutFires",
               After(TimeoutCallback([Cur EXCEPT !.timeoutRef = NoTimer],
                                     timeoutRef)))

\* A probe started for the URL shown rejects.
PreloadFails ==
    \E u \in ProbeUrls :
        /\ probes[u] > 0
        /\ u = normalizedUrl
        /\ Becomes("PreloadFails",
                   After(PreloadFailed([Cur EXCEPT !.probes[u] = @ - 1])))

\* A probe started for the URL shown resolves: only a log line.
PreloadSucceeds ==
    \E u \in ProbeUrls :
        /\ probes[u] > 0
        /\ u = normalizedUrl
        /\ Becomes("PreloadSucceeds", After([Cur EXCEPT !.probes[u] = @ - 1]))

\* A probe started for another URL than the one shown rejects: its catch
\* block runs the same functional update of retryCount.
StalePreloadFails ==
    \E u \in ProbeUrls :
        /\ probes[u] > 0
        /\ u # normalizedUrl
        /\ Becomes("StalePreloadFails",
                   After(PreloadFailed([Cur EXCEPT !.probes[u] = @ - 1])))

StalePreloadSucceeds ==
    \E u \in ProbeUrls :
        /\ probes[u] > 0
        /\ u # normalizedUrl
        /\ Becomes("StalePreloadSucceeds",
                   After([Cur EXCEPT !.probes[u] = @ - 1]))

ImageInit ==
    /\ imageUrl = Mounted0.imageUrl
    /\ isLoading = Mounted0.isLoading
    /\ isImageLoaded = Mounted0.isImageLoaded
    /\ hasError = Mounted0.hasError
    /\ errorType = Mounted0.errorType
    /\ retryCount = Mounted0.retryCount
    /\ loadingTimeout = Mounted0.loadingTimeout
    /\ normalizedUrl = Mounted0.normalizedUrl
    /\ useFallbackImg = Mounted0.useFallbackImg
    /\ timeoutRef = Mounted0.timeoutRef
    /\ errorReportedRef = Mounted0.errorReportedRef
    /\ probes = Mounted0.probes
    /\ mounted = Mounted0.mounted
    /\ loadPending = Mounted0.loadPending
    /\ onErrorCalls = Mounted0.onErrorCalls
    /\ suppressed = Mounted0.suppressed
    /\ lastEvent = "mount"
    /\ scenario = "off"
    /\ sequenceReported = FALSE

ImageNext ==
    \/ SetUrl
    \/ SetLoading
    \/ ImageLoad
    \/ ImageError
    \/ TimeoutFires
    \/ PreloadFails
    \/ PreloadSucceeds
    \/ StalePreloadFails
    \/ StalePreloadSucceeds

(***************************************************************************)
(* The Home page, its AvatarPromptForm and the buttons AvatarResultDisplay *)
(* renders for it.                                                         *)
(*                                                                         *)
(* Home state: internalPrompt, gameStyle, imageUrl (here homeImageUrl),    *)
(* imageError, showResultSection, and the observer of the image mutation   *)
(* (imageMutationStatus: the status of the mutation started last).  Form   *)
(* state: isGenerating, errorMessage.  Requests in flight, in the order of *)
(* their issue: descriptionRequests (the form data of each submission) and *)
(* imageRequests (the prompt of each, the style label held when it was     *)
(* issued, whether handleReset has run since, and whether it is the        *)
(* mutation started last, which the observer follows).                     *)
(*                                                                         *)
(* Home reads isFetching from the mutation result, a property that is not  *)
(* declared in this repository: hasIsFetching says whether the result      *)
(* carries it (then it follows isPending) or it is undefined.              *)
(*                                                                         *)
(* History: lastSettled is the image request that settled in the last      *)
(* step, lastDescription the text the description request resolved with in *)
(* the last step, latestResult what the request issued last resolved with  *)
(* (none when it has not, or Generate Another came after its issue),       *)
(* homeEvent names the last action.                                        *)
(***************************************************************************)
\* Image-generation requests in flight at the same time.
MaxImageRequests == 2

\* null, for the messages.
NoText == "<null>"

\* null, for the prompt and the style label (template literals are the
\* sequences of their parts).
NoPrompt == << >>

NoRequest == [prompt |-> NoPrompt, style |-> NoPrompt, cancelled |-> FALSE,
              latest |-> FALSE]

\* No result of the request issued last.
NoResult == [imageUrl |-> Null, style |-> NoPrompt]

\* The select's options: value and label.
ART_STYLES ==
    { <<"pixel-art", "Pixel Art">>, <<"realistic", "Realistic">>,
      <<"cartoonish", "Cartoonish">>, <<"anime", "Anime">> }

\* What the user submits (values the form schema accepts).
FormData ==
    [description : {"calm, creative problem solver"},
     artStyle : {"pixel-art", "anime"},
     gameName : {"Minecraft"}]

\* What the description request resolves with ("" : no description).
Descriptions == {"a detailed avatar", "a heroic avatar", ""}

\* What the image request resolves with.
ResultUrls == { UrlText("https", HostReplicate, TRUE),
                UrlText("https", HostExample, TRUE) }

\* The messages an image request rejects with.
ErrorMessages == {"Rate limit exceeded. Please try again later."}

\* ART_STYLES.find(style => style.value === data.artStyle)?.label || data.artStyle
finalArtStyle(data) ==
    IF \E s \in ART_STYLES : s[1] = data.artStyle
    THEN (CHOOSE s \in ART_STYLES : s[1] = data.artStyle)[2]
    ELSE data.artStyle

\* The text of a template literal, as the sequence of its parts.
styleContext(data) == <<finalArtStyle(data), " style from ", data.gameName>>

\* The prompt without the description.
imagePromptGuidelinesOnly(avatarDescription, data) ==
    <<"", "Style Guidelines", finalArtStyle(data), data.gameName>>

imagePrompt(avatarDescription, data) ==
    <<avatarDescription, "Style Guidelines", finalArtStyle(data), data.gameName>>

displayStyle(data) == <<finalArtStyle(data), " (", data.gameName, ")">>

\* generateAvatarImageMutation.isPending
isPending == imageMutationStatus = "pending"

isGeneratingImage == isPending /\ hasIsFetching

\* isLoading: mutation.isPending of the description mutation
isDescriptionLoading == Len(descriptionRequests) > 0

isFormDisabled == isGenerating \/ isDescriptionLoading

\* page.tsx: the condition under which AvatarResultDisplay is rendered.
ResultSectionShown ==
    showResultSection \/ isGeneratingImage \/ Truthy(homeImageUrl)

\* AvatarResultDisplay renders a button bound to onRegenerateImage: Try
\* Again in the API error panel, Regenerate Image in the validation and
\* load error panels (both need an imageUrl) and below the image.
RegenerateOffered ==
    /\ ResultSectionShown
    /\ ~isGeneratingImage
    /\ \/ imageError # NoText /\ ~Truthy(homeImageUrl)
       \/ Truthy(homeImageUrl)

\* AvatarResultDisplay: the API error panel, the message "Error: {error}"
\* with the Try Again button.
ApiErrorPanelShown ==
    /\ ResultSectionShown
    /\ imageError # NoText
    /\ ~isGeneratingImage
    /\ ~Truthy(homeImageUrl)

\* generateAvatarImageMutation.mutate({ prompt })
Mutate(prompt, style) ==
    /\ Len(imageRequests) < MaxImageRequests
    /\ imageRequests' =
          Append([i \in 1..Len(imageRequests) |->
                     [imageRequests[i] EXCEPT !.latest = FALSE]],
                 [prompt |-> prompt, style |-> style, cancelled |-> FALSE,
                  latest |-> TRUE])
    /\ imageMutationStatus' = "pending"
    /\ latestResult' = NoResult

handleStartImageGeneration(prompt, style) ==
    /\ internalPrompt' = prompt
    /\ gameStyle' = style
    /\ imageError' = NoText
    /\ showResultSection' = TRUE
    /\ Mutate(prompt, style)

\* The sequence without its i-th element.
Without(seq, i) == SubSeq(seq, 1, i - 1) \o SubSeq(seq, i + 1, Len(seq))

\* generateDescription without its test of the result.
NoDescriptionUnchecked(text) == FALSE

\* generateDescription: !result.description, on which it throws.
NoDescription(text) == text = ""

\* The user submits the form: onSubmit up to the await.
Submit ==
    \E data \in FormData :
        /\ ~isFormDisabled
        /\ errorMessage' = NoText
        /\ isGenerating' = TRUE
        /\ descriptionRequests' = Append(descriptionRequests, data)
        /\ homeEvent' = "Submit"
        /\ UNCHANGED latestResult
        /\ UNCHANGED <<imageVars, serverVars, loaderVars, urlVars,
                       displayVars>>
        /\ lastSettled' = NoRequest
        /\ lastDescription' = NoText
        /\ UNCHANGED <<internalPrompt, gameStyle, homeImageUrl, imageError,
                       showResultSection, imageMutationStatus, hasIsFetching,
                       imageRequests>>

\* The description request resolves: onSubmit from the await on.
DescriptionResolves ==
    \E i \in 1..Len(descriptionRequests), text \in Descriptions :
        /\ descriptionRequests' = Without(descriptionRequests, i)
        /\ isGenerating' = FALSE
        /\ lastSettled' = NoRequest
        /\ lastDescription' = text
        /\ UNCHANGED <<homeImageUrl, hasIsFetching>>
        /\ UNCHANGED <<imageVars, serverVars, loaderVars, urlVars,
                       displayVars>>
        /\ homeEvent' = IF text = "" THEN "DescriptionEmpty"
                                     ELSE "DescriptionResolves"
        /\ IF NoDescription(text)
           THEN /\ errorMessage' = "Claude API error"
                /\ UNCHANGED <<internalPrompt, gameStyle, imageError,
                               showResultSection, imageMutationStatus,
                               imageRequests, latestResult>>
           ELSE /\ handleStartImageGeneration(
                       imagePrompt(text, descriptionRequests[i]),
                       displayStyle(descriptionRequests[i]))
                /\ UNCHANGED errorMessage

\* The description request rejects: the catch and finally of onSubmit.
DescriptionRejects ==
    \E i \in 1..Len(descriptionRequests) :
        /\ descriptionRequests' = Without(descriptionRequests, i)
        /\ errorMessage' = "Claude API error"
        /\ isGenerating' = FALSE
        /\ homeEvent' = "DescriptionRejects"
        /\ UNCHANGED latestResult
        /\ UNCHANGED <<imageVars, serverVars, loaderVars, urlVars,
                       displayVars>>
        /\ lastSettled' = NoRequest
        /\ lastDescription' = NoText
        /\ UNCHANGED <<internalPrompt, gameStyle, homeImageUrl, imageError,
                       showResultSection, imageMutationStatus, hasIsFetching,
                       imageRequests>>

\* A click on Try Again or Regenerate Image.
handleRegenerateImage ==
    /\ RegenerateOffered
    /\ homeEvent' = "handleRegenerateImage"
    /\ UNCHANGED <<imageVars, serverVars, loaderVars, urlVars, displayVars>>
    /\ lastSettled' = NoRequest
    /\ lastDescription' = NoText
    /\ UNCHANGED <<internalPrompt, gameStyle, homeImageUrl, showResultSection,
                   hasIsFetching, isGenerating, errorMessage,
                   descriptionRequests>>
    /\ IF internalPrompt # NoPrompt
       THEN /\ imageError' = NoText
            /\ Mutate(internalPrompt, gameStyle)
       ELSE UNCHANGED <<imageError, imageRequests, imageMutationStatus,
                        latestResult>>

\* A click on Generate Another.  Nothing is done to the mutation.
handleReset ==
    /\ ResultSectionShown
    /\ internalPrompt' = NoPrompt
    /\ gameStyle' = NoPrompt
    /\ homeImageUrl' = Null
    /\ imageError' = NoText
    /\ showResultSection' = FALSE
    /\ imageRequests' = [i \in 1..Len(imageRequests) |->
                            [imageRequests[i] EXCEPT !.cancelled = TRUE]]
    /\ homeEvent' = "handleReset"
    /\ latestResult' = NoResult
    /\ UNCHANGED <<imageVars, serverVars, loaderVars, urlVars, displayVars>>
    /\ lastSettled' = NoRequest
    /\ lastDescription' = NoText
    /\ UNCHANGED <<imageMutationStatus, hasIsFetching, isGenerating,
                   errorMessage, descriptionRequests>>

\* An image request resolves: the onSuccess of useMutation runs for every
\* mutation; the observer follows only the mutation started last.
ImageResolves ==
    \E i \in 1..Len(imageRequests), url \in ResultUrls :
        /\ homeImageUrl' = url
        /\ imageRequests' = Without(imageRequests, i)
        /\ imageMutationStatus' =
              IF imageRequests[i].latest THEN "success"
                                         ELSE imageMutationStatus
        /\ latestResult' =
              IF imageRequests[i].latest /\ ~imageRequests[i].cancelled
              THEN [imageUrl |-> url, style |-> imageRequests[i].style]
              ELSE latestResult
        /\ homeEvent' = "ImageResolves"
        /\ UNCHANGED <<imageVars, serverVars, loaderVars, urlVars,
                       displayVars>>
        /\ lastSettled' = imageRequests[i]
        /\ lastDescription' = NoText
        /\ UNCHANGED <<internalPrompt, gameStyle, imageError,
                       showResultSection, hasIsFetching, isGenerating,
                       errorMessage, descriptionRequests>>

\* An image request rejects: the onError of useMutation.
ImageRejects ==
    \E i \in 1..Len(imageRequests), message \in ErrorMessages :
        /\ imageError' = message
        /\ imageRequests' = Without(imageRequests, i)
        /\ imageMutationStatus' =
              IF imageRequests[i].latest THEN "error" ELSE imageMutationStatus
        /\ UNCHANGED latestResult
        /\ homeEvent' = "ImageRejects"
        /\ UNCHANGED <<imageVars, serverVars, loaderVars, urlVars,
                       displayVars>>
        /\ lastSettled' = imageRequests[i]
        /\ lastDescription' = NoText
        /\ UNCHANGED <<internalPrompt, gameStyle, homeImageUrl,
                       showResultSection, hasIsFetching, isGenerating,
                       errorMessage, descriptionRequests>>

\* The page before any submission.
HomeIdle ==
    /\ internalPrompt = NoPrompt
    /\ gameStyle = NoPrompt
    /\ homeImageUrl = Null
    /\ imageError = NoText
    /\ showResultSection = FALSE
    /\ imageMutationStatus = "idle"
    /\ isGenerating = FALSE
    /\ errorMessage = NoText
    /\ descriptionRequests = << >>
    /\ imageRequests = << >>
    /\ lastSettled = NoRequest
    /\ lastDescription = NoText
    /\ latestResult = NoResult
    /\ homeEvent = "mount"

HomeInit == HomeIdle /\ hasIsFetching \in BOOLEAN

HomeNext ==
    \/ Submit
    \/ DescriptionResolves
    \/ DescriptionRejects
    \/ handleRegenerateImage
    \/ handleReset
    \/ ImageResolves
    \/ ImageRejects

(***************************************************************************)
(* The tRPC procedures generateAvatarDescription and generateAvatarImage.  *)
(*                                                                         *)
(* One invocation of one procedure: srvProc is the procedure, srvEnv which *)
(* API keys the environment holds, srvInput the input of the call, srvPc   *)
(* the await the mutation body is                                          *)
(* at, srvTimer the timer of the timeout promise, srvResponse the status   *)
(* of the response whose body is being read, srvCalls how often the remote *)
(* endpoint was called, srvOutcome what the mutation body returned or      *)
(* threw, srvCause the event that made it settle, with its input.          *)
(*                                                                         *)
(* A text is the sequence of its parts; the parts are chosen such that     *)
(* String.prototype.includes is a search for a subsequence.  A thrown      *)
(* value is null or undefined (nullish), or an object: an Error or not, a  *)
(* TRPCError or not, with its message (none: NoMessage), its code and the  *)
(* status of its response (0: no response).                                *)
(***************************************************************************)
NoMessage == << >>

NoCode == "<undefined>"

Nullish == [nullish |-> TRUE, isError |-> FALSE, isTRPC |-> FALSE,
            message |-> NoMessage, code |-> NoCode, status |-> 0]

\* new TRPCError({ code, message })
TRPCError(code, message) ==
    [nullish |-> FALSE, isError |-> TRUE, isTRPC |-> TRUE,
     message |-> message, code |-> code, status |-> 0]

\* new Error(message)
JsError(message) ==
    [nullish |-> FALSE, isError |-> TRUE, isTRPC |-> FALSE,
     message |-> message, code |-> NoCode, status |-> 0]

\* The TypeError of a property read on null or undefined.
PropertyOfNullish == JsError(<<"Cannot read properties of ", "null">>)

\* An Error with a code (a connection error of the socket layer).
SystemError(code, message) == [JsError(message) EXCEPT !.code = code]

\* The error the image-generation client throws for a non-OK response: its
\* message holds the status and the text of the response.
ApiError(status, text) ==
    [JsError(<<"Request failed with status ", ToString(status), ": ">> \o text)
        EXCEPT !.status = status]

\* An object that is no Error and has no message.
PlainObject == [JsError(NoMessage) EXCEPT !.isError = FALSE]

TimedOut == <<"timed out">>

Network == <<"network">>

\* What the remote call can throw or reject with.
RemoteErrors ==
    { Nullish, PlainObject,
      JsError(<<"fetch failed">>),
      JsError(<<"socket hang up">>),
      JsError(<<"a ", "network", " error occurred">>),
      SystemError("ECONNREFUSED", <<"connect ECONNREFUSED">>),
      SystemError("ENOTFOUND", <<"getaddrinfo ENOTFOUND">>),
      SystemError("EPIPE", <<"write EPIPE">>) }
    \cup { ApiError(status, text) :
             status \in {401, 402, 404, 429, 500, 503},
             text \in { <<"Too Many Requests">>,
                        <<"upstream request ", "timed out">>,
                        <<"a ", "network", " error occurred">> } }

\* A connection failure of fetch: the TypeError of the platform's fetch, or
\* the error of the socket layer.
ConnectionFailures ==
    { JsError(<<"fetch failed">>),
      SystemError("ECONNREFUSED", <<"connect ECONNREFUSED">>),
      SystemError("ENOTFOUND", <<"getaddrinfo ENOTFOUND">>) }

\* The statuses of the text-generation endpoint's responses.
Statuses == {200, 400, 401, 402, 429, 500, 503}

\* response.ok
Ok(status) == status \in 200..299

\* The parsed bodies of a response: null, or an object whose content is a
\* sequence of blocks, each with its text ("" : none).
Bodies ==
    { [isNull |-> TRUE, content |-> << >>],
      [isNull |-> FALSE, content |-> << >>],
      [isNull |-> FALSE, content |-> <<"">>],
      [isNull |-> FALSE, content |-> <<"", "a detailed avatar">>],
      [isNull |-> FALSE, content |-> <<"a detailed avatar">>] }

\* What the image-generation client resolves with: an array or not, and the
\* elements: strings (as in imageUtils) or not.
OutputElements ==
    { [isString |-> TRUE, text |-> EmptyStr],
      [isString |-> TRUE, text |-> NotAUrl],
      [isString |-> TRUE, text |-> UrlText("https", HostReplicate, TRUE)],
      [isString |-> TRUE, text |-> UrlText("https", HostExample, TRUE)],
      [isString |-> FALSE, text |-> Null],
      [isString |-> FALSE, text |-> UrlText("https", HostReplicate, TRUE)] }

Outputs ==
    { [isArray |-> FALSE, elems |-> << >>], [isArray |-> TRUE, elems |-> << >>] }
    \cup { [isArray |-> a, elems |-> <<e>>] :
             a \in BOOLEAN, e \in OutputElements }
    \cup { [isArray |-> TRUE, elems |-> <<e, f>>] :
             e \in OutputElements,
             f \in { [isString |-> TRUE,
                      text |-> UrlText("https", HostReplicate, TRUE)] } }

NoOutput == [isArray |-> FALSE, elems |-> << >>]

\* The outcome of a mutation body.
Pending == [state |-> "pending", error |-> Nullish, text |-> NoMessage,
            imageUrl |-> Null]

Threw(error) == [Pending EXCEPT !.state = "threw", !.error = error]

ReturnedDescription(text) ==
    [Pending EXCEPT !.state = "returned", !.text = text]

ReturnedImage(url) ==
    [Pending EXCEPT !.state = "returned", !.imageUrl = url]

\* generateAvatarDescription: the throw for a response that is not OK.
descriptionStatusError(status) ==
    IF status = 401
    THEN TRPCError("UNAUTHORIZED", <<"Authentication failed with the AI service">>)
    ELSE IF status = 402
    THEN TRPCError("FORBIDDEN",
           <<"AI service requires payment. Please check your account status.">>)
    ELSE IF status = 429
    THEN TRPCError("TOO_MANY_REQUESTS",
           <<"Rate limit exceeded for the AI service. Please try again later.">>)
    ELSE IF status >= 500
    THEN TRPCError("INTERNAL_SERVER_ERROR",
           <<"The AI service is currently experiencing issues. Please try again later.">>)
    ELSE TRPCError("INTERNAL_SERVER_ERROR",
           <<"AI service error: ", ToString(status)>>)

\* generateAvatarDescription without the timeout branch of its catch block.
descriptionCatchNoTimeout(error) ==
    IF error.nullish THEN PropertyOfNullish
    ELSE IF error.isTRPC THEN error
    ELSE TRPCError("INTERNAL_SERVER_ERROR",
           IF error.isError THEN error.message ELSE <<"Unknown error occurred">>)

\* generateAvatarDescription: what its catch block throws for what it caught.
descriptionCatch(error) ==
    IF error.nullish THEN PropertyOfNullish
    ELSE IF error.message # NoMessage /\ Includes(error.message, TimedOut)
    THEN TRPCError("TIMEOUT",
           <<"AI service request ", "timed out", ". Please try again later.">>)
    ELSE IF \/ error.code = "ECONNREFUSED"
            \/ error.code = "ENOTFOUND"
            \/ Includes(error.message, Network)
    THEN TRPCError("INTERNAL_SERVER_ERROR",
           <<"Could not connect to AI service. Please check your internet connection and try again.">>)
    ELSE IF error.isTRPC THEN error
    ELSE TRPCError("INTERNAL_SERVER_ERROR",
           IF error.isError THEN error.message ELSE <<"Unknown error occurred">>)

\* generateAvatarDescription from the parsed body on, up to the catch block:
\* what it returns, or what it throws.
descriptionResult(result) ==
    IF result.isNull THEN Threw(PropertyOfNullish)
    ELSE IF Len(result.content) = 0 \/ result.content[1] = ""
    THEN Threw(TRPCError("INTERNAL_SERVER_ERROR",
                         <<"Invalid response from AI service">>))
    ELSE ReturnedDescription(<<result.content[1]>>)

\* generateAvatarImage without the parse of the first element as a URL.
imageResultUnparsed(output) ==
    IF output.isArray /\ Len(output.elems) > 0
    THEN ReturnedImage(output.elems[1].text)
    ELSE Threw(TRPCError("INTERNAL_SERVER_ERROR",
                 <<"Image generation succeeded but no output was returned">>))

\* generateAvatarImage from the output of the client on, up to the catch
\* block: what it returns, or what it throws.
imageResult(output) ==
    IF output.isArray /\ Len(output.elems) > 0
    THEN LET first == output.elems[1]
         IN  IF ~Truthy(first.text) \/ ~first.isString
             THEN Threw(TRPCError("INTERNAL_SERVER_ERROR",
                    <<"Received invalid image URL from generation service">>))
             ELSE IF ~Parses(first.text)
             THEN Threw(TRPCError("INTERNAL_SERVER_ERROR",
                    <<"Generated image URL is not properly formatted">>))
             ELSE ReturnedImage(first.text)
    ELSE Threw(TRPCError("INTERNAL_SERVER_ERROR",
                 <<"Image generation succeeded but no output was returned">>))

\* generateAvatarImage: the throw for an error that carries a response
\* status (NoStatusError: none of the branches, the code falls through).
NoStatusError == TRPCError("<none>", NoMessage)

imageStatusError(status) ==
    IF status = 401
    THEN TRPCError("UNAUTHORIZED",
           <<"Failed to authenticate with image generation service. Please check your API credentials.">>)
    ELSE IF status = 402
    THEN TRPCError("FORBIDDEN",
           <<"Image generation service requires payment. Please check your account status.">>)
    ELSE IF status = 429
    THEN TRPCError("TOO_MANY_REQUESTS",
           <<"Image generation rate limit exceeded. Please try again in a few minutes.">>)
    ELSE IF status >= 500
    THEN TRPCError("INTERNAL_SERVER_ERROR",
           <<"Image generation service is currently experiencing issues. Please try again later.">>)
    ELSE NoStatusError

\* generateAvatarImage: what its catch block throws for what it caught.
imageCatch(error) ==
    IF error.isTRPC THEN error
    ELSE IF error.nullish THEN PropertyOfNullish
    ELSE IF error.message # NoMessage /\ Includes(error.message, TimedOut)
    THEN TRPCError("TIMEOUT",
           <<"Image generation ", "timed out", ". Please try again later.">>)
    ELSE IF \/ error.code = "ECONNREFUSED"
            \/ error.code = "ENOTFOUND"
            \/ Includes(error.message, Network)
    THEN TRPCError("INTERNAL_SERVER_ERROR",
           <<"Could not connect to image generation service. Please check your internet connection and try again.">>)
    ELSE IF error.status # 0 /\ imageStatusError(error.status) # NoStatusError
    THEN imageStatusError(error.status)
    ELSE TRPCError("INTERNAL_SERVER_ERROR",
           IF error.isError
           THEN <<"Error during image generation: ">> \o error.message
           ELSE <<"Unknown error occurred during image generation">>)

\* The outcome of the mutation body that returned or threw inside its try
\* block: a throw passes through the catch block.
descriptionOutcome(inTry) ==
    IF inTry.state = "threw" THEN Threw(descriptionCatch(inTry.error))
    ELSE inTry

imageOutcome(inTry) ==
    IF inTry.state = "threw" THEN Threw(imageCatch(inTry.error)) ELSE inTry

NoCause == [event |-> "none", error |-> Nullish, status |-> 0,
            body |-> [isNull |-> TRUE, content |-> << >>],
            output |-> NoOutput]

Cause(event) == [NoCause EXCEPT !.event = event]

\* The input of a procedure: each field a string, given by its characters.
InputStrings == {<< >>, <<" ">>, <<"c", "a", "l", "m">>}

Inputs(proc) ==
    IF proc = "generateAvatarDescription"
    THEN [description : InputStrings, gameStyle : InputStrings]
    ELSE [prompt : InputStrings]

\* z.string().min(1): a string of at least one character.
MinOne(string) == Len(string) >= 1

\* The input schema of generateAvatarDescription.
descriptionInputParses(input) ==
    MinOne(input.description) /\ MinOne(input.gameStyle)

\* The input schema of generateAvatarImage: z.object({ prompt: z.string() }).
imageInputParses(input) == TRUE

\* What the procedure throws for an input its schema rejects, before the
\* mutation body runs.
InputRejected == Threw(TRPCError("BAD_REQUEST", <<"Input validation failed">>))

\* One step of the mutation body.
ServerStep(pc, timer, response, calls, outcome, cause) ==
    /\ srvPc' = pc
    /\ srvTimer' = timer
    /\ srvResponse' = response
    /\ srvCalls' = calls
    /\ srvOutcome' = outcome
    /\ srvCause' = cause
    /\ UNCHANGED <<srvProc, srvEnv, srvInput>>
    /\ UNCHANGED <<imageVars, homeVars, loaderVars, urlVars, displayVars>>

\* generateAvatarDescription up to the await of the race: an input the
\* schema rejects is refused before the body runs; otherwise the timer is set
\* and fetch is called, with the key the environment holds or without one.
InvokeDescription ==
    /\ srvProc = "generateAvatarDescription"
    /\ srvPc = "start"
    /\ IF ~descriptionInputParses(srvInput)
       THEN ServerStep("done", "none", 0, srvCalls, InputRejected,
                       Cause("invoke"))
       ELSE ServerStep("race", "pending", 0, srvCalls + 1, Pending,
                       Cause("invoke"))

\* fetch resolves with a response: the body awaits response.text() or
\* response.json().
FetchResolves ==
    \E status \in Statuses :
        /\ srvProc = "generateAvatarDescription"
        /\ srvPc = "race"
        /\ ServerStep(IF Ok(status) THEN "json" ELSE "text", srvTimer, status,
                      srvCalls, Pending, Cause("FetchResolves"))

FetchRejects ==
    \E error \in RemoteErrors :
        /\ srvProc = "generateAvatarDescription"
        /\ srvPc = "race"
        /\ ServerStep("done", srvTimer, 0, srvCalls,
                      descriptionOutcome(Threw(error)),
                      [Cause("FetchRejects") EXCEPT !.error = error])

\* The 30 s timer fires: the timeout promise rejects, which settles the race
\* when the race is still awaited and is without effect otherwise.
DescriptionTimerFires ==
    /\ srvProc = "generateAvatarDescription"
    /\ srvTimer = "pending"
    /\ IF srvPc = "race"
       THEN ServerStep("done", "fired", 0, srvCalls,
              descriptionOutcome(Threw(JsError(
                 <<"Anthropic API call ", "timed out", " after 30 seconds">>))),
              Cause("DescriptionTimerFires"))
       ELSE ServerStep(srvPc, "fired", srvResponse, srvCalls, srvOutcome,
                       srvCause)

\* response.text() of a response that is not OK resolves.
TextResolves ==
    /\ srvProc = "generateAvatarDescription"
    /\ srvPc = "text"
    /\ ServerStep("done", srvTimer, srvResponse, srvCalls,
                  descriptionOutcome(Threw(descriptionStatusError(srvResponse))),
                  [Cause("TextResolves") EXCEPT !.status = srvResponse])

\* response.text() rejects: the connection broke while the body was read.
TextRejects ==
    \E error \in {JsError(<<"terminated">>)} :
        /\ srvProc = "generateAvatarDescription"
        /\ srvPc = "text"
        /\ ServerStep("done", srvTimer, srvResponse, srvCalls,
                      descriptionOutcome(Threw(error)),
                      [Cause("TextRejects") EXCEPT !.error = error,
                                                   !.status = srvResponse])

\* response.json() resolves with the parsed body.
JsonResolves ==
    \E body \in Bodies :
        /\ srvProc = "generateAvatarDescription"
        /\ srvPc = "json"
        /\ ServerStep("done", srvTimer, srvResponse, srvCalls,
                      descriptionOutcome(descriptionResult(body)),
                      [Cause("JsonResolves") EXCEPT !.body = body,
                                                    !.status = srvResponse])

\* response.json() rejects: the body is no JSON, or the connection broke.
JsonRejects ==
    \E error \in {JsError(<<"Unexpected token < in JSON">>),
                  JsError(<<"terminated">>)} :
        /\ srvProc = "generateAvatarDescription"
        /\ srvPc = "json"
        /\ ServerStep("done", srvTimer, srvResponse, srvCalls,
                      descriptionOutcome(Threw(error)),
                      [Cause("JsonRejects") EXCEPT !.error = error,
                                                   !.status = srvResponse])

\* generateAvatarImage up to the await of the race: the input is parsed by
\* the schema, which accepts every string; without a token the body throws;
\* with one the timer is set and the client is run.
InvokeImage ==
    /\ srvProc = "generateAvatarImage"
    /\ srvPc = "start"
    /\ IF ~imageInputParses(srvInput)
       THEN ServerStep("done", "none", 0, srvCalls, InputRejected,
                       Cause("invoke"))
       ELSE IF ~srvEnv.REPLICATE_API_TOKEN
       THEN ServerStep("done", "none", 0, srvCalls,
              imageOutcome(Threw(TRPCError("INTERNAL_SERVER_ERROR",
                 <<"Image generation service is not properly configured">>))),
              Cause("invoke"))
       ELSE ServerStep("race", "pending", 0, srvCalls + 1, Pending,
                       Cause("invoke"))

\* replicate.run resolves with the output of the model.
RunResolves ==
    \E output \in Outputs :
        /\ srvProc = "generateAvatarImage"
        /\ srvPc = "race"
        /\ ServerStep("done", srvTimer, 0, srvCalls,
                      imageOutcome(imageResult(output)),
                      [Cause("RunResolves") EXCEPT !.output = output])

RunRejects ==
    \E error \in RemoteErrors :
        /\ srvProc = "generateAvatarImage"
        /\ srvPc = "race"
        /\ ServerStep("done", srvTimer, 0, srvCalls,
                      imageOutcome(Threw(error)),
                      [Cause("RunRejects") EXCEPT !.error = error,
                                                  !.status = error.status])

\* The 60 s timer fires.
ImageTimerFires ==
    /\ srvProc = "generateAvatarImage"
    /\ srvTimer = "pending"
    /\ IF srvPc = "race"
       THEN ServerStep("done", "fired", 0, srvCalls,
              imageOutcome(Threw(JsError(
                 <<"Replicate API call ", "timed out", " after 60 seconds">>))),
              Cause("ImageTimerFires"))
       ELSE ServerStep(srvPc, "fired", srvResponse, srvCalls, srvOutcome,
                       srvCause)

\* No procedure invoked yet.
ServerIdle ==
    /\ srvProc = "generateAvatarDescription"
    /\ srvEnv = [ANTHROPIC_API_KEY |-> TRUE, REPLICATE_API_TOKEN |-> TRUE]
    /\ srvInput = [description |-> <<"c", "a", "l", "m">>,
                   gameStyle |-> <<"c", "a", "l", "m">>]
    /\ srvPc = "start"
    /\ srvTimer = "none"
    /\ srvResponse = 0
    /\ srvCalls = 0
    /\ srvOutcome = Pending
    /\ srvCause = NoCause

\* A procedure is about to be invoked, in an environment with or without
\* each of the API keys.
ServerInit ==
    /\ srvProc \in {"generateAvatarDescription", "generateAvatarImage"}
    /\ srvEnv \in [ANTHROPIC_API_KEY : BOOLEAN, REPLICATE_API_TOKEN : BOOLEAN]
    /\ srvInput \in Inputs(srvProc)
    /\ srvPc = "start"
    /\ srvTimer = "none"
    /\ srvResponse = 0
    /\ srvCalls = 0
    /\ srvOutcome = Pending
    /\ srvCause = NoCause

ServerNext ==
    \/ InvokeDescription
    \/ FetchResolves
    \/ FetchRejects
    \/ DescriptionTimerFires
    \/ TextResolves
    \/ TextRejects
    \/ JsonResolves
    \/ JsonRejects
    \/ InvokeImage
    \/ RunResolves
    \/ RunRejects
    \/ ImageTimerFires

(***************************************************************************)
(* loadImageWithRetry(url, maxRetries, initialDelay).                      *)
(*                                                                         *)
(* loadArgs are the arguments, retries and delay the variables of the      *)
(* closure, attempts the Image elements created so far, img whether the    *)
(* element of the last attempt has still to answer, wait the delay the     *)
(* last setTimeout was called with (0: none yet), backoff whether the      *)
(* timer of setTimeout(attemptLoad, delay) is pending, resolveCalls and    *)
(* rejectCalls how often resolve and reject of the promise were called.    *)
(***************************************************************************)
MaxLoadRetries == 3

LoadArgs ==
    [url : {UrlText("https", HostReplicate, TRUE),
            UrlText("https", HostExample, TRUE)},
     maxRetries : 0..MaxLoadRetries,
     initialDelay : {1000, 2000}]

\* The promise executor has run: the first attemptLoad is made.
Called(args) ==
    /\ loadArgs = args
    /\ retries = 0
    /\ delay = args.initialDelay
    /\ attempts = 1
    /\ img = "loading"
    /\ backoff = FALSE
    /\ wait = 0
    /\ resolveCalls = 0
    /\ rejectCalls = 0

LoaderStep(r, d, a, i, b, res, rej, w) ==
    /\ retries' = r
    /\ delay' = d
    /\ attempts' = a
    /\ img' = i
    /\ backoff' = b
    /\ resolveCalls' = res
    /\ rejectCalls' = rej
    /\ wait' = w
    /\ UNCHANGED loadArgs
    /\ UNCHANGED <<imageVars, homeVars, serverVars, urlVars, displayVars>>

\* img.onload
OnLoad ==
    /\ img = "loading"
    /\ LoaderStep(retries, delay, attempts, "loaded", backoff,
                  resolveCalls + 1, rejectCalls, wait)

\* img.onerror, retrying also when the retries are used up.
OnErrorAlwaysRetry ==
    /\ img = "loading"
    /\ attempts <= MaxLoadRetries + 1
    /\ LoaderStep(retries + 1, delay * 2, attempts, "failed", TRUE,
                  resolveCalls, rejectCalls, delay)

\* img.onerror, doubling the delay before the timer is set.
OnErrorDoubleFirst ==
    /\ img = "loading"
    /\ IF retries < loadArgs.maxRetries
       THEN LoaderStep(retries + 1, delay * 2, attempts, "failed", TRUE,
                       resolveCalls, rejectCalls, delay * 2)
       ELSE LoaderStep(retries, delay, attempts, "failed", backoff,
                       resolveCalls, rejectCalls + 1, wait)

\* img.onerror
OnError ==
    /\ img = "loading"
    /\ IF retries < loadArgs.maxRetries
       THEN LoaderStep(retries + 1, delay * 2, attempts, "failed", TRUE,
                       resolveCalls, rejectCalls, delay)
       ELSE LoaderStep(retries, delay, attempts, "failed", backoff,
                       resolveCalls, rejectCalls + 1, wait)

\* The timer of setTimeout(attemptLoad, delay) fires: attemptLoad.
AttemptLoad ==
    /\ backoff
    /\ LoaderStep(retries, delay, attempts + 1, "loading", FALSE,
                  resolveCalls, rejectCalls, wait)

LoaderIdle ==
    Called([url |-> UrlText("https", HostExample, TRUE), maxRetries |-> 1,
            initialDelay |-> 2000])

LoaderInit == \E args \in LoadArgs : Called(args)

LoaderNext ==
    \/ OnLoad
    \/ OnError
    \/ AttemptLoad

(***************************************************************************)
(* The URL helpers of imageUtils as functions of their argument.           *)
(*                                                                         *)
(* urlArg is the argument, applied the set of the helpers applied to it    *)
(* so far, isValid the result of validateImageUrl(urlArg), normalizedOnce  *)
(* that of normalizeImageUrl(urlArg), renormalized that of                 *)
(* normalizeImageUrl applied to normalizedOnce, isTemporary that of        *)
(* isLikelyTemporaryUrl(urlArg).                                           *)
(***************************************************************************)
HostDomain == ReplicateDelivery

HostLookalike == <<"replicate", ".", "delivery", ".", "evil", ".", "example">>

HostPrefixed == <<"not", "replicate", ".", "delivery">>

HostOther == <<"replicate", ".", "example">>

\* The arguments: null, the empty string, a blank string, a string that is
\* no URL, and texts of URLs of several schemes and hosts, serialised or not.
UrlArguments ==
    {Null, EmptyStr, BlankStr, NotAUrl}
    \cup { UrlText(scheme, host, canon) :
             scheme \in {"https", "http", "ftp", "foo"},
             host \in {HostExample, HostReplicate, HostDomain, HostLookalike,
                       HostPrefixed, HostOther},
             canon \in BOOLEAN }

ApplyValidate ==
    /\ "validateImageUrl" \notin applied
    /\ applied' = applied \cup {"validateImageUrl"}
    /\ isValid' = validateImageUrl(urlArg)
    /\ UNCHANGED <<urlArg, normalizedOnce, renormalized, isTemporary>>
    /\ UNCHANGED <<imageVars, homeVars, serverVars, loaderVars, displayVars>>

ApplyNormalize ==
    /\ "normalizeImageUrl" \notin applied
    /\ applied' = applied \cup {"normalizeImageUrl"}
    /\ normalizedOnce' = normalizeImageUrl(urlArg)
    /\ UNCHANGED <<urlArg, isValid, renormalized, isTemporary>>
    /\ UNCHANGED <<imageVars, homeVars, serverVars, loaderVars, displayVars>>

\* normalizeImageUrl applied to its own result.
ApplyNormalizeAgain ==
    /\ "normalizeImageUrl" \in applied
    /\ "again" \notin applied
    /\ applied' = applied \cup {"again"}
    /\ renormalized' = normalizeImageUrl(normalizedOnce)
    /\ UNCHANGED <<urlArg, isValid, normalizedOnce, isTemporary>>
    /\ UNCHANGED <<imageVars, homeVars, serverVars, loaderVars, displayVars>>

ApplyIsLikelyTemporary ==
    /\ "isLikelyTemporaryUrl" \notin applied
    /\ applied' = applied \cup {"isLikelyTemporaryUrl"}
    /\ isTemporary' = isLikelyTemporaryUrl(urlArg)
    /\ UNCHANGED <<urlArg, isValid, normalizedOnce, renormalized>>
    /\ UNCHANGED <<imageVars, homeVars, serverVars, loaderVars, displayVars>>

NothingApplied ==
    /\ applied = {}
    /\ isValid = FALSE
    /\ normalizedOnce = Null
    /\ renormalized = Null
    /\ isTemporary = FALSE

UrlIdle == urlArg = Null /\ NothingApplied

UrlInit == urlArg \in UrlArguments /\ NothingApplied

UrlNext ==
    \/ ApplyValidate
    \/ ApplyNormalize
    \/ ApplyNormalizeAgain
    \/ ApplyIsLikelyTemporary

(***************************************************************************)
(* AvatarResultDisplay.                                                    *)
(*                                                                         *)
(* Props: imageUrl and isLoading (here resultImageUrl, resultIsLoading).   *)
(* State: validatedImageUrl, imageValidationError and imageLoadError (set  *)
(* or null), isTemporaryUrl, retryCounter.  Environment: retryTimers, the  *)
(* 100 ms timers of handleRetryImageLoad that are pending, each with the   *)
(* imageUrl its callback closed over.  AvatarImage is the child that calls *)
(* onError.  History: resultEvent names the last action.                   *)
(***************************************************************************)
\* Clicks on Retry Loading.
MaxRetryClicks == 2

\* The strings the page passes as imageUrl.
ResultImageUrls ==
    { Null, NotAUrl,
      UrlText("https", HostExample, TRUE),
      UrlText("http", HostOther, TRUE),
      UrlText("https", HostReplicate, TRUE) }

\* The validation effect, dependencies [imageUrl, isLoading]: the state it
\* leaves for the props it runs with.
ResultValidationEffect(url, loading) ==
    LET normalized == normalizeImageUrl(url)
    IN  IF ~Truthy(url) \/ loading
        THEN [validatedImageUrl |-> Null, imageValidationError |-> FALSE,
              isTemporaryUrl |-> FALSE]
        ELSE IF ~validateImageUrl(url)
        THEN [validatedImageUrl |-> Null, imageValidationError |-> TRUE,
              isTemporaryUrl |-> FALSE]
        ELSE [validatedImageUrl |-> normalized,
              imageValidationError |-> FALSE,
              isTemporaryUrl |->
                  Truthy(normalized) /\ isLikelyTemporaryUrl(normalized)]

\* A render with changed props, and the validation effect after it.
PropsBecome(url, loading) ==
    LET e == ResultValidationEffect(url, loading)
    IN  /\ resultImageUrl' = url
        /\ resultIsLoading' = loading
        /\ validatedImageUrl' = e.validatedImageUrl
        /\ imageValidationError' = e.imageValidationError
        /\ isTemporaryUrl' = e.isTemporaryUrl
        /\ imageLoadError' = FALSE
        /\ UNCHANGED <<retryCounter, retryTimers>>
        /\ UNCHANGED <<imageVars, homeVars, serverVars, loaderVars, urlVars>>

\* The page passes another imageUrl.
ResultSetUrl ==
    \E u \in ResultImageUrls :
        /\ u # resultImageUrl
        /\ PropsBecome(u, resultIsLoading)
        /\ resultEvent' = "ResultSetUrl"

\* The page toggles isLoading.
ResultSetLoading ==
    /\ PropsBecome(resultImageUrl, ~resultIsLoading)
    /\ resultEvent' = "ResultSetLoading"

\* AvatarImage, which is given validatedImageUrl || "" and isLoading, calls
\* onError.
handleImageLoadError ==
    /\ Truthy(validatedImageUrl)
    /\ ~resultIsLoading
    /\ imageLoadError' = TRUE
    /\ resultEvent' = "handleImageLoadError"
    /\ UNCHANGED <<resultImageUrl, resultIsLoading, validatedImageUrl,
                   imageValidationError, isTemporaryUrl, retryCounter,
                   retryTimers>>
    /\ UNCHANGED <<imageVars, homeVars, serverVars, loaderVars, urlVars>>

\* What the timer of handleRetryImageLoad closes over.
RetryTimerFor(url) == url

\* A click on Retry Loading, shown while imageLoadError && !isLoading.
handleRetryImageLoad ==
    /\ imageLoadError
    /\ ~resultIsLoading
    /\ retryCounter < MaxRetryClicks
    /\ imageLoadError' = FALSE
    /\ retryCounter' = retryCounter + 1
    /\ validatedImageUrl' = Null
    /\ retryTimers' = retryTimers \cup {RetryTimerFor(resultImageUrl)}
    /\ resultEvent' = "handleRetryImageLoad"
    /\ UNCHANGED <<resultImageUrl, resultIsLoading, imageValidationError,
                   isTemporaryUrl>>
    /\ UNCHANGED <<imageVars, homeVars, serverVars, loaderVars, urlVars>>

\* A 100 ms timer of handleRetryImageLoad fires.
RetryTimerFires ==
    \E url \in retryTimers :
        /\ retryTimers' = retryTimers \ {url}
        /\ validatedImageUrl' = IF Truthy(url) THEN normalizeImageUrl(url)
                                               ELSE validatedImageUrl
        /\ resultEvent' = "RetryTimerFires"
        /\ UNCHANGED <<resultImageUrl, resultIsLoading, imageValidationError,
                       isTemporaryUrl, imageLoadError, retryCounter>>
        /\ UNCHANGED <<imageVars, homeVars, serverVars, loaderVars, urlVars>>

\* AvatarResultDisplay as mounted, with no imageUrl.
DisplayIdle ==
    /\ resultImageUrl = Null
    /\ resultIsLoading = FALSE
    /\ validatedImageUrl = Null
    /\ imageValidationError = FALSE
    /\ isTemporaryUrl = FALSE
    /\ imageLoadError = FALSE
    /\ retryCounter = 0
    /\ retryTimers = {}
    /\ resultEvent = "mount"

DisplayInit == DisplayIdle

DisplayNext ==
    \/ ResultSetUrl
    \/ ResultSetLoading
    \/ handleImageLoadError
    \/ handleRetryImageLoad
    \/ RetryTimerFires

(***************************************************************************)
(* Specifications: AvatarImage under an arbitrary parent, the page, the     *)
(* procedures of the server, loadImageWithRetry, the URL helpers, and      *)
(* AvatarResultDisplay under an arbitrary page.                            *)
(***************************************************************************)
\* AvatarImage alone: the page stays as it is.
ImageSpecInit ==
    /\ ImageInit /\ HomeIdle /\ hasIsFetching = TRUE /\ ServerIdle
    /\ LoaderIdle /\ UrlIdle /\ DisplayIdle

ImageSpec == ImageSpecInit /\ [][ImageNext]_vars

\* One load sequence of AvatarImage: the parent has passed a valid URL to
\* the freshly mounted component and changes neither imageUrl nor isLoading.
SequenceStart(u) == Mount(Settle(Mounted0, [Mounted0 EXCEPT !.imageUrl = u]))

SequenceInit ==
    \E u \in { v \in ImageUrls : validateImageUrl(v) } :
        /\ imageUrl = SequenceStart(u).imageUrl
        /\ isLoading = SequenceStart(u).isLoading
        /\ isImageLoaded = SequenceStart(u).isImageLoaded
        /\ hasError = SequenceStart(u).hasError
        /\ errorType = SequenceStart(u).errorType
        /\ retryCount = SequenceStart(u).retryCount
        /\ loadingTimeout = SequenceStart(u).loadingTimeout
        /\ normalizedUrl = SequenceStart(u).normalizedUrl
        /\ useFallbackImg = SequenceStart(u).useFallbackImg
        /\ timeoutRef = SequenceStart(u).timeoutRef
        /\ errorReportedRef = SequenceStart(u).errorReportedRef
        /\ probes = SequenceStart(u).probes
        /\ mounted = SequenceStart(u).mounted
        /\ loadPending = SequenceStart(u).loadPending
        /\ onErrorCalls = SequenceStart(u).onErrorCalls
        /\ suppressed = SequenceStart(u).suppressed
        /\ lastEvent = "SetUrl"
        /\ scenario = "fresh"
        /\ sequenceReported = FALSE

SequenceNext ==
    \/ ImageLoad
    \/ ImageError
    \/ TimeoutFires
    \/ PreloadFails
    \/ PreloadSucceeds

\* The fairness of the runtime: a pending timer fires.  Nothing is assumed
\* of the element and of the probes, which may stay silent.
SequenceSpecInit ==
    /\ SequenceInit /\ HomeIdle /\ hasIsFetching = TRUE /\ ServerIdle
    /\ LoaderIdle /\ UrlIdle /\ DisplayIdle

TimerFairness == WF_vars(TimeoutFires)

SequenceFairSpec ==
    SequenceSpecInit /\ [][SequenceNext]_vars /\ TimerFairness

\* The page alone: AvatarImage stays as mounted.
HomeSpecInit ==
    /\ HomeInit /\ ImageInit /\ ServerIdle /\ LoaderIdle /\ UrlIdle
    /\ DisplayIdle

HomeSpec == HomeSpecInit /\ [][HomeNext]_vars

\* One invocation of a procedure of the server.
ServerSpecInit ==
    /\ ServerInit /\ ImageInit /\ HomeIdle /\ hasIsFetching = TRUE
    /\ LoaderIdle /\ UrlIdle /\ DisplayIdle

ServerSpec == ServerSpecInit /\ [][ServerNext]_vars

\* One call of loadImageWithRetry.
LoaderSpecInit ==
    /\ LoaderInit /\ ImageInit /\ HomeIdle /\ hasIsFetching = TRUE
    /\ ServerIdle /\ UrlIdle /\ DisplayIdle

LoaderSpec == LoaderSpecInit /\ [][LoaderNext]_vars

\* The URL helpers applied to one argument.
UrlSpecInit ==
    /\ UrlInit /\ ImageInit /\ HomeIdle /\ hasIsFetching = TRUE
    /\ ServerIdle /\ LoaderIdle /\ DisplayIdle

UrlSpec == UrlSpecInit /\ [][UrlNext]_vars

\* AvatarResultDisplay alone.
DisplaySpecInit ==
    /\ DisplayInit /\ ImageInit /\ HomeIdle /\ hasIsFetching = TRUE
    /\ ServerIdle /\ LoaderIdle /\ UrlIdle

DisplaySpec == DisplaySpecInit /\ [][DisplayNext]_vars

(***************************************************************************)
(* Claims about AvatarImage, checked under ImageSpec.                      *)
(***************************************************************************)
\* The display state the render shows.
TimedOutShown == ~isLoading /\ loadingTimeout /\ ~isImageLoaded /\ ~hasError

\* C1: in every reachable state the retry counter is within 0..maxRetries.
C1_RetryWithinCap == retryCount \in 0..maxRetries

\* C2: between two changes of imageUrl the parent's onError is called at
\* most once.
C2_OnErrorAtMostOnce == onErrorCalls <= 1

\* C2 witness: a render-time failure at the cap came after onError had been
\* called for this imageUrl, and its report was dropped.
C2_Witness ==
    /\ lastEvent = "ImageError"
    /\ hasError
    /\ suppressed
    /\ onErrorCalls = 1

\* C3 as stated: from a freshly set valid URL, two consecutive render-time
\* failures leave AvatarImage errored with onError called exactly once.
C3_TwoFailuresErrored == scenario = "fail2" => (hasError /\ onErrorCalls = 1)

\* C3 amended: from a freshly set valid URL, two consecutive render-time
\* failures bring the retry counter to maxRetries without the errored state
\* and without a call of onError; a render-time failure that leaves
\* AvatarImage errored has found the counter at the cap, and onError has
\* then been called exactly once.
C3_TwoFailuresReachCap ==
    /\ scenario = "fail2" =>
          (retryCount = maxRetries /\ ~hasError /\ onErrorCalls = 0)
    /\ (lastEvent = "ImageError" /\ hasError) =>
          (retryCount >= maxRetries /\ onErrorCalls = 1)

\* C3 witness: the two failures have happened.
C3_Witness == scenario = "fail2" /\ lastEvent = "ImageError"

\* C4: while a valid imageUrl B is shown, an event of the load sequence of
\* an earlier imageUrl A with another normalized form (a probe started for
\* A settling; no timer of A is left pending) changes none of the loaded
\* flag, the error flag, the timeout flag and the retry counter.
C4_StaleEventsIgnored ==
    [][(/\ validateImageUrl(imageUrl) /\ ~isLoading
        /\ lastEvent' \in {"StalePreloadFails", "StalePreloadSucceeds"}) =>
          UNCHANGED <<isImageLoaded, hasError, loadingTimeout, retryCount>>
      ]_imageVars

\* C5: every change of imageUrl resets the loaded flag, the error state, the
\* retry counter and the timeout flag and leaves no timer of the previous
\* URL pending (the error flag may be set again for the new URL only when
\* the new URL is invalid).
C5_UrlChangeResets ==
    [][imageUrl' # imageUrl =>
          /\ ~isImageLoaded'
          /\ retryCount' = 0
          /\ ~loadingTimeout'
          /\ hasError' => ~validateImageUrl(imageUrl')
          /\ timeoutRef'.pending => validateImageUrl(imageUrl')
      ]_imageVars

\* C6: in the timed-out state a successful render-time load of the same URL
\* can still occur.
C6_LoadPossibleWhenTimedOut == TimedOutShown => ENABLED ImageLoad

\* C6, what the code does instead: no render-time load event occurs in the
\* timed-out state.
C6_NoLoadWhileTimedOut ==
    [][TimedOutShown => lastEvent' # "ImageLoad"]_imageVars

C8_AtMostOneFlag ==
    /\ ~(isImageLoaded /\ hasError)
    /\ ~(isImageLoaded /\ loadingTimeout)
    /\ ~(hasError /\ loadingTimeout)

(***************************************************************************)
(* Claims about the page, checked under HomeSpec.                          *)
(***************************************************************************)
\* C9: at any time at most one image-generation request and at most one
\* description-generation request is outstanding.
C9_OneRequestOutstanding ==
    /\ Len(imageRequests) <= 1
    /\ Len(descriptionRequests) <= 1

\* C10: the completion of an image-generation request that was in flight
\* when the user pressed Generate Another changes neither imageUrl nor
\* imageError nor whether the result section is shown.
C10_CancelledResultIgnored ==
    [][(/\ homeEvent' \in {"ImageResolves", "ImageRejects"}
        /\ lastSettled'.cancelled) =>
          /\ UNCHANGED <<homeImageUrl, imageError>>
          /\ ResultSectionShown' = ResultSectionShown
      ]_homeVars

\* C11: whenever the image-generation request issued last has just failed
\* and no request is in progress, the result panel renders the failure
\* message together with a button that issues a new request, also while an
\* image of an earlier generation is held.
C11_FailureShownWithNextStep ==
    (/\ homeEvent = "ImageRejects"
     /\ imageMutationStatus = "error"
     /\ ~lastSettled.cancelled
     /\ imageRequests = << >>) =>
        (ApiErrorPanelShown /\ RegenerateOffered)

\* C12: when the description request of a submission rejects or resolves
\* without a description, onStartImageGeneration is not called and no
\* image-generation request is issued: the page state and the requests in
\* flight stay as they were, and the form shows an error message.
C12_SubmissionAllOrNothing ==
    [][homeEvent' \in {"DescriptionRejects", "DescriptionEmpty"} =>
          /\ UNCHANGED <<imageRequests, imageMutationStatus, internalPrompt,
                         gameStyle, showResultSection, imageError>>
          /\ errorMessage' # NoText
          /\ ~isGenerating'
      ]_homeVars

\* C12 witness: a description request resolved without a description and
\* no image request was issued.
C12_Witness ==
    /\ homeEvent = "DescriptionEmpty"
    /\ errorMessage # NoText
    /\ imageRequests = << >>
    /\ ~showResultSection

(***************************************************************************)
(* Claims about the procedures of the server, checked under ServerSpec.    *)
(***************************************************************************)
\* C13: when the 30 s timer of generateAvatarDescription fires while the
\* race is still awaited (the endpoint has not responded), the procedure
\* throws a TRPCError with code TIMEOUT.
C13_TimerGivesTimeout ==
    srvCause.event = "DescriptionTimerFires" =>
        /\ srvOutcome.state = "threw"
        /\ srvOutcome.error.isTRPC
        /\ srvOutcome.error.code = "TIMEOUT"

\* C13 witness: the timer has fired before a response and the procedure has
\* thrown.
C13_Witness ==
    /\ srvCause.event = "DescriptionTimerFires"
    /\ srvPc = "done"
    /\ srvTimer = "fired"
    /\ srvOutcome.state = "threw"

\* C14: in no reachable state has the 30 s timer fired while
\* generateAvatarDescription is still pending.
C14_TimeoutBoundsRequest ==
    (srvProc = "generateAvatarDescription" /\ srvTimer = "fired") =>
        srvPc = "done"

\* Both API keys are in the environment.
KeysConfigured == srvEnv.ANTHROPIC_API_KEY /\ srvEnv.REPLICATE_API_TOKEN

\* The input of the call passes the schema of its procedure, so that the
\* mutation body runs.
InputAccepted ==
    IF srvProc = "generateAvatarDescription"
    THEN descriptionInputParses(srvInput)
    ELSE imageInputParses(srvInput)

\* C15: with the keys configured, when the image-generation call fails with an error that carries an
\* HTTP status, the code of the error generateAvatarImage throws is given by
\* the status alone: 401 UNAUTHORIZED, 402 FORBIDDEN, 429 TOO_MANY_REQUESTS
\* with a try-again message, 500 and above INTERNAL_SERVER_ERROR with the
\* message of an unavailable service.
C15_StatusAloneGivesKind ==
    (KeysConfigured /\ srvCause.event = "RunRejects" /\ srvCause.status # 0) =>
        /\ srvOutcome.state = "threw"
        /\ srvCause.status = 401 => srvOutcome.error.code = "UNAUTHORIZED"
        /\ srvCause.status = 402 => srvOutcome.error.code = "FORBIDDEN"
        /\ srvCause.status = 429 =>
              /\ srvOutcome.error.code = "TOO_MANY_REQUESTS"
              /\ srvOutcome.error.message =
                    <<"Image generation rate limit exceeded. Please try again in a few minutes.">>
        /\ srvCause.status >= 500 =>
              /\ srvOutcome.error.code = "INTERNAL_SERVER_ERROR"
              /\ srvOutcome.error.message =
                    <<"Image generation service is currently experiencing issues. Please try again later.">>

\* The error generateAvatarDescription throws for a connection failure.
CouldNotConnect ==
    TRPCError("INTERNAL_SERVER_ERROR",
      <<"Could not connect to AI service. Please check your internet connection and try again.">>)

\* C16: with the keys configured, generateAvatarDescription fails with the kind the status of a
\* response that is not OK gives (401 UNAUTHORIZED, 402 FORBIDDEN, 429
\* TOO_MANY_REQUESTS, 500 and above INTERNAL_SERVER_ERROR with the message
\* of an unavailable service), with the network error for a connection
\* failure of fetch, and with the invalid-response error for a success body
\* whose first content block has no text.
C16_DescriptionKinds ==
    KeysConfigured =>
    /\ (srvCause.event \in {"TextResolves", "TextRejects"}) =>
          /\ srvOutcome.state = "threw"
          /\ srvOutcome.error.isTRPC
          /\ srvCause.status = 401 => srvOutcome.error.code = "UNAUTHORIZED"
          /\ srvCause.status = 402 => srvOutcome.error.code = "FORBIDDEN"
          /\ srvCause.status = 429 =>
                srvOutcome.error.code = "TOO_MANY_REQUESTS"
          /\ srvCause.status >= 500 =>
                /\ srvOutcome.error.code = "INTERNAL_SERVER_ERROR"
                /\ srvOutcome.error.message =
                      <<"The AI service is currently experiencing issues. Please try again later.">>
    /\ (srvCause.event = "FetchRejects"
        /\ srvCause.error \in ConnectionFailures) =>
          srvOutcome = Threw(CouldNotConnect)
    /\ (/\ srvCause.event = "JsonResolves"
        /\ ~srvCause.body.isNull
        /\ (srvCause.body.content = << >> \/ srvCause.body.content[1] = "")) =>
          srvOutcome = Threw(TRPCError("INTERNAL_SERVER_ERROR",
                                       <<"Invalid response from AI service">>))

\* C17: with the keys configured, an input the schema accepts and whatever
\* the remote call throws or rejects with, a failing
\* invocation of either procedure throws a TRPCError whose code is one of
\* UNAUTHORIZED, FORBIDDEN, TOO_MANY_REQUESTS, TIMEOUT and
\* INTERNAL_SERVER_ERROR, and a failure of the remote call is never turned
\* into a return.
C17_EveryFailureTyped ==
    (KeysConfigured /\ InputAccepted) =>
    /\ srvOutcome.state = "threw" =>
          /\ srvOutcome.error.isTRPC
          /\ srvOutcome.error.code \in
                {"UNAUTHORIZED", "FORBIDDEN", "TOO_MANY_REQUESTS", "TIMEOUT",
                 "INTERNAL_SERVER_ERROR"}
    /\ srvCause.event \in {"FetchRejects", "RunRejects", "TextRejects",
                           "JsonRejects", "DescriptionTimerFires",
                           "ImageTimerFires"} =>
          srvOutcome.state = "threw"

\* C18: generateAvatarImage returns exactly when the output of the client is
\* a non-empty array whose first element is a non-empty string that parses
\* as a URL, it then returns that element as imageUrl, whatever the host;
\* otherwise it throws a TRPCError with code INTERNAL_SERVER_ERROR.
C18_OutputShape ==
    srvCause.event = "RunResolves" =>
        LET output == srvCause.output
            wellFormed ==
                /\ output.isArray
                /\ Len(output.elems) > 0
                /\ output.elems[1].isString
                /\ output.elems[1].text.kind \notin {"null", "empty"}
                /\ output.elems[1].text.kind = "url"
        IN  /\ wellFormed <=> srvOutcome.state = "returned"
            /\ wellFormed => srvOutcome.imageUrl = output.elems[1].text
            /\ ~wellFormed =>
                  /\ srvOutcome.state = "threw"
                  /\ srvOutcome.error.isTRPC
                  /\ srvOutcome.error.code = "INTERNAL_SERVER_ERROR"

\* C18 witness: a URL of a host other than the delivery domain was returned.
C18_Witness ==
    /\ srvCause.event = "RunResolves"
    /\ srvOutcome.state = "returned"
    /\ srvOutcome.imageUrl = UrlText("https", HostExample, TRUE)

\* C19: a procedure invoked without its API key in the environment, with an
\* input its schema accepts, throws the configuration error and has not
\* called the remote endpoint.
C19_MissingKeyNoCall ==
    /\ (/\ srvProc = "generateAvatarDescription"
        /\ ~srvEnv.ANTHROPIC_API_KEY
        /\ InputAccepted
        /\ srvPc # "start") =>
          /\ srvCalls = 0
          /\ srvOutcome.state = "threw"
          /\ srvOutcome.error.code = "INTERNAL_SERVER_ERROR"
    /\ (/\ srvProc = "generateAvatarImage"
        /\ ~srvEnv.REPLICATE_API_TOKEN
        /\ srvPc # "start") =>
          /\ srvCalls = 0
          /\ srvOutcome =
                Threw(TRPCError("INTERNAL_SERVER_ERROR",
                  <<"Image generation service is not properly configured">>))

(***************************************************************************)
(* Claims about loadImageWithRetry, checked under LoaderSpec.              *)
(***************************************************************************)
\* C20: resolve and reject are called at most once together; resolve is
\* called for the attempt that loaded and reject after maxRetries + 1 failed
\* attempts; once either is called no attempt is pending or scheduled; and
\* when no attempt is pending or scheduled the promise has settled.
C20_LoadWithRetry ==
    /\ resolveCalls + rejectCalls <= 1
    /\ attempts <= loadArgs.maxRetries + 1
    /\ resolveCalls = 1 => img = "loaded"
    /\ rejectCalls = 1 =>
          (img = "failed" /\ attempts = loadArgs.maxRetries + 1)
    /\ resolveCalls + rejectCalls = 1 => (img # "loading" /\ ~backoff)
    /\ (img # "loading" /\ ~backoff) => resolveCalls + rejectCalls = 1

\* C20 witness: every attempt failed and the promise was rejected after
\* more than two attempts.
C20_Witness ==
    /\ rejectCalls = 1
    /\ resolveCalls = 0
    /\ loadArgs.maxRetries >= 2
    /\ attempts = loadArgs.maxRetries + 1

\* C21: the wait before the k-th retry is initialDelay * 2^(k-1): the timer
\* of the k-th retry is set with that delay, and the delay in store is then
\* twice that.
C21_ExponentialBackoff ==
    /\ delay = loadArgs.initialDelay * 2^retries
    /\ retries >= 1 => wait = loadArgs.initialDelay * 2^(retries - 1)
    /\ backoff => retries >= 1
    /\ retries = attempts - (IF backoff THEN 0 ELSE 1)

\* C21 witness: the third retry is scheduled, with four times the initial
\* delay.
C21_Witness ==
    /\ backoff
    /\ retries = 3
    /\ wait = 4 * loadArgs.initialDelay

(***************************************************************************)
(* Further claims about AvatarImage, checked under ImageSpec.              *)
(***************************************************************************)
\* C22: a rejection of a preload probe increments the retry counter and
\* leaves the loaded flag, the error flag and type, the timeout flag and the
\* rendering strategy as they were, without a call of onError; a resolution
\* of a probe changes no state of the component.
C22_ProbeTouchesOnlyRetryCount ==
    [][/\ lastEvent' \in {"PreloadFails", "StalePreloadFails"} =>
             /\ retryCount' = retryCount + 1
             /\ UNCHANGED <<isImageLoaded, hasError, errorType,
                            loadingTimeout, useFallbackImg, normalizedUrl,
                            onErrorCalls, errorReportedRef>>
       /\ lastEvent' \in {"PreloadSucceeds", "StalePreloadSucceeds"} =>
             UNCHANGED <<isImageLoaded, hasError, errorType, retryCount,
                         loadingTimeout, useFallbackImg, normalizedUrl,
                         onErrorCalls, errorReportedRef, timeoutRef>>
      ]_imageVars

\* C22 witness: a probe of the URL shown has rejected.
C22_Witness ==
    /\ lastEvent = "PreloadFails"
    /\ retryCount = 1
    /\ ~hasError /\ ~isImageLoaded /\ ~loadingTimeout /\ ~useFallbackImg
    /\ onErrorCalls = 0

\* C23: a pending load timer belongs to a valid imageUrl and runs 20 s when
\* isLikelyTemporaryUrl holds for the normalized URL and 15 s otherwise;
\* setting a valid imageUrl (while not loading) schedules it; and the
\* timeout flag is set, and the timed-out display of a valid imageUrl
\* entered, only by the timer firing while the image is neither loaded nor
\* errored.
C23_TimeoutDuration ==
    /\ [](timeoutRef.pending =>
            /\ validateImageUrl(imageUrl)
            /\ ~isLoading
            /\ timeoutRef.duration =
                  IF isLikelyTemporaryUrl(normalizeImageUrl(imageUrl))
                  THEN 20000 ELSE 15000)
    /\ [][/\ (/\ lastEvent' = "SetUrl"
              /\ validateImageUrl(imageUrl')
              /\ ~isLoading') => timeoutRef'.pending
          /\ (loadingTimeout' /\ ~loadingTimeout) =>
                /\ lastEvent' = "TimeoutFires"
                /\ ~isImageLoaded /\ ~hasError
          /\ (/\ validateImageUrl(imageUrl')
              /\ TimedOutShown' /\ ~TimedOutShown) =>
                lastEvent' = "TimeoutFires"
         ]_imageVars

\* C23 witness: the 20 s timer of a replicate.delivery URL is pending.
C23_Witness ==
    /\ lastEvent = "SetUrl"
    /\ imageUrl = UrlText("https", HostReplicate, TRUE)
    /\ timeoutRef.pending
    /\ timeoutRef.duration = 20000

(***************************************************************************)
(* Claims about the URL helpers, checked under UrlSpec.                    *)
(***************************************************************************)
\* C24: validateImageUrl(u) is true exactly when u is a non-empty string
\* that parses as a URL with the https scheme, whatever its host.
C24_ValidateIffHttps ==
    "validateImageUrl" \in applied =>
        (isValid <=> (urlArg.kind = "url" /\ urlArg.scheme = "https"))

\* C24 witness: an https URL of an unrecognized host was found valid.
C24_Witness ==
    /\ "validateImageUrl" \in applied
    /\ isValid
    /\ urlArg = UrlText("https", HostOther, FALSE)

\* C25: normalizeImageUrl applied to its own result returns that result.
C25_NormalizeIdempotent ==
    "again" \in applied => renormalized = normalizedOnce

\* C25 witness: an http URL that is not in serialised form was normalized
\* twice, and the first normalization changed it.
C25_Witness ==
    /\ "again" \in applied
    /\ urlArg = UrlText("http", HostExample, FALSE)
    /\ normalizedOnce # urlArg

\* s is a string that does not parse as a URL.
Malformed(s) == s.kind \in {"empty", "blank", "garbage"}

\* C26 as stated: for every string s that does not parse as a URL, the empty
\* string included, validateImageUrl(s) is false and normalizeImageUrl(s)
\* is s.
C26_MalformedUnchanged ==
    Malformed(urlArg) =>
        /\ "validateImageUrl" \in applied => ~isValid
        /\ "normalizeImageUrl" \in applied => normalizedOnce = urlArg

\* C26 amended: for every non-empty string s that does not parse as a URL,
\* validateImageUrl(s) is false and normalizeImageUrl(s) is s; for the empty
\* string validateImageUrl is false and normalizeImageUrl returns null.
C26_MalformedUnchangedUnlessEmpty ==
    Malformed(urlArg) =>
        /\ "validateImageUrl" \in applied => ~isValid
        /\ "normalizeImageUrl" \in applied =>
              normalizedOnce = IF urlArg.kind = "empty" THEN Null ELSE urlArg

\* C26 witness: both helpers were applied to a string that is no URL.
C26_Witness ==
    /\ urlArg = NotAUrl
    /\ {"validateImageUrl", "normalizeImageUrl"} \subseteq applied
    /\ normalizedOnce = NotAUrl

\* The host is replicate.delivery or a subdomain of it.
InDeliveryDomain(host) ==
    /\ Len(host) >= Len(ReplicateDelivery)
    /\ SubSeq(host, Len(host) - Len(ReplicateDelivery) + 1, Len(host))
          = ReplicateDelivery
    /\ Len(host) > Len(ReplicateDelivery) =>
          host[Len(host) - Len(ReplicateDelivery)] = "."

\* C27: isLikelyTemporaryUrl(u) is true exactly when u parses as a URL whose
\* host is replicate.delivery or a subdomain of it.
C27_TemporaryIffDeliveryDomain ==
    "isLikelyTemporaryUrl" \in applied =>
        (isTemporary <=> (urlArg.kind = "url" /\ InDeliveryDomain(urlArg.host)))

\* The call has an empty input field.
EmptyInput ==
    IF srvProc = "generateAvatarDescription"
    THEN srvInput.description = << >> \/ srvInput.gameStyle = << >>
    ELSE srvInput.prompt = << >>

\* C28: both procedures reject an empty input before any remote call is
\* made: generateAvatarDescription an empty description or an empty
\* gameStyle, generateAvatarImage an empty prompt.  With the keys configured,
\* an invocation with an empty input never calls the remote endpoint and
\* ends with the rejection of the input.
C28_EmptyInputRejected ==
    (KeysConfigured /\ EmptyInput) =>
        /\ srvCalls = 0
        /\ srvPc # "start" =>
              /\ srvPc = "done"
              /\ srvOutcome.state = "threw"
              /\ srvOutcome.error.code = "BAD_REQUEST"

\* C29 (ImageSpec): while the URL is valid the error flag is set only by a
\* render-time failure that finds the retry counter at maxRetries or above;
\* a render-time failure that finds it below maxRetries adds one to the
\* counter, leaves the error flag unset and does not call onError.
C29_ErroredOnlyAtCap ==
    [][ /\ (validateImageUrl(imageUrl') /\ hasError' /\ ~hasError) =>
              /\ lastEvent' = "ImageError"
              /\ retryCount >= maxRetries
        /\ (lastEvent' = "ImageError" /\ retryCount < maxRetries) =>
              /\ validateImageUrl(imageUrl)
              /\ retryCount' = retryCount + 1
              /\ ~hasError'
              /\ onErrorCalls' = onErrorCalls
              /\ errorReportedRef' = errorReportedRef
      ]_imageVars

\* C29 witness: a render-time failure of a valid URL at the cap has set the
\* error flag and was reported.
C29_Witness ==
    /\ lastEvent = "ImageError"
    /\ validateImageUrl(imageUrl)
    /\ retryCount = maxRetries
    /\ hasError
    /\ errorType = getImageErrorDetails(normalizedUrl)
    /\ onErrorCalls = 1

\* The request issued in this step.
Issued(request) ==
    /\ Len(imageRequests') = Len(imageRequests) + 1
    /\ imageRequests'[Len(imageRequests')] = request
    /\ \A i \in 1..Len(imageRequests) :
          /\ imageRequests'[i].prompt = imageRequests[i].prompt
          /\ imageRequests'[i].style = imageRequests[i].style
          /\ imageRequests'[i].cancelled = imageRequests[i].cancelled

\* C30 (HomeSpec): the prompt sent to image generation when the description
\* request resolves is the returned text, verbatim, followed by the style
\* guidelines of the submitted form, and it is the prompt stored; Regenerate
\* Image issues a request with exactly the stored prompt and none when no
\* prompt is stored; the stored prompt changes only when a form submission
\* hands over its prompt and when Generate Another clears it.
C30_PromptVerbatimAndReissued ==
    [][ /\ homeEvent' = "DescriptionResolves" =>
              \E data \in FormData :
                  /\ descriptionRequests = <<data>>
                  /\ internalPrompt' =
                        <<lastDescription', "Style Guidelines",
                          finalArtStyle(data), data.gameName>>
                  /\ lastDescription' # ""
                  /\ Issued([prompt |-> internalPrompt',
                             style |-> gameStyle', cancelled |-> FALSE,
                             latest |-> TRUE])
        /\ homeEvent' = "handleRegenerateImage" =>
              IF internalPrompt # NoPrompt
              THEN Issued([prompt |-> internalPrompt, style |-> gameStyle,
                           cancelled |-> FALSE, latest |-> TRUE])
              ELSE UNCHANGED imageRequests
        /\ homeEvent' = "handleReset" => internalPrompt' = NoPrompt
        /\ internalPrompt' # internalPrompt =>
              homeEvent' \in {"DescriptionResolves", "handleReset"}
        /\ Len(imageRequests') > Len(imageRequests) =>
              homeEvent' \in {"DescriptionResolves", "handleRegenerateImage"}
      ]_homeVars

\* C30 witness: Regenerate Image has re-issued the prompt of the submission,
\* which starts with the description returned.
C30_Witness ==
    /\ homeEvent = "handleRegenerateImage"
    /\ Len(imageRequests) = 2
    /\ imageRequests[1].prompt = imageRequests[2].prompt
    /\ imageRequests[2].prompt = internalPrompt
    /\ internalPrompt[1] = "a heroic avatar"

\* The display state the render shows when the error flag is set.
ErroredShown == ~isLoading /\ hasError

\* C31 (ImageSpec): whenever AvatarImage is in the errored state or in the
\* timed-out state, onError has been invoked for the current load sequence,
\* also for a load sequence restarted by isLoading going true and back to
\* false with an unchanged imageUrl.
C31_ShownFailureWasReported ==
    (ErroredShown \/ TimedOutShown) => sequenceReported

\* C32 (DisplaySpec): whenever validatedImageUrl is non-null it is
\* normalizeImageUrl of the current imageUrl prop, and that imageUrl passes
\* validateImageUrl.
C32_ValidatedMatchesProp ==
    validatedImageUrl # Null =>
        /\ validateImageUrl(resultImageUrl)
        /\ validatedImageUrl = normalizeImageUrl(resultImageUrl)

\* C33 (HomeSpec): when every image request issued has completed and the
\* one issued last has resolved (with no Generate Another since its issue),
\* the imageUrl the page holds is the result of the request issued last,
\* whatever the order of the responses, and the style label is the one
\* issued with that request.
C33_LatestRequestWins ==
    (imageRequests = << >> /\ latestResult # NoResult) =>
        /\ homeImageUrl = latestResult.imageUrl
        /\ gameStyle = latestResult.style

\* The display state of a valid URL that is neither loaded, errored nor
\* timed out.
SpinnerShown ==
    /\ ~isLoading
    /\ validateImageUrl(imageUrl)
    /\ ~isImageLoaded /\ ~hasError /\ ~loadingTimeout

\* C34 (SequenceFairSpec): a load sequence of a valid URL does not stay in the
\* spinner state forever: from every state showing the spinner AvatarImage
\* reaches loaded, errored or timed-out (or the parent starts another load
\* sequence), also when the element emits no further event.
C34_SpinnerEnds == SpinnerShown ~> ~SpinnerShown

\* C34 witness: the element had failed up to the cap and was silent, and the
\* timer has ended the load sequence as timed out.
C34_Witness ==
    /\ lastEvent = "TimeoutFires"
    /\ validateImageUrl(imageUrl)
    /\ retryCount = maxRetries
    /\ TimedOutShown

=============================================================================
